---- MODULE Spec2Model ----
(***************************************************************************)
(* A model of plugins/obs-ffmpeg/obs-ffmpeg-amf.c: one encoder session     *)
(* (struct ffmpeg_amf_encoder), the libavcodec session it drives, and the  *)
(* handlers create / encode / update / get_extra_data / get_video_info /   *)
(* destroy that the host calls on it, one call at a time.                  *)
(* Spec is the life of a session; SpecFair adds that a running destroy and *)
(* the hardware go on; SpecConfigure creates sessions over the whole range *)
(* of settings and outputs; SpecCopy copies frames of every shape.         *)
(***************************************************************************)
EXTENDS Integers, Sequences, FiniteSets, TLC

(***************************************************************************)
(* Bounds of the model.                                                    *)
(***************************************************************************)
\* encode calls the host makes on one session
MaxEncodes == 3
\* frames and packets the codec session can hold at once
QueueCap == 2
\* the height of the tallest frame the host passes to copy_data alone
MaxHeight == 3

(***************************************************************************)
(* errno values and libavcodec result codes, as the source compares them.  *)
(***************************************************************************)
EAGAIN == 11
EINVAL == 22
AVERROR(e) == -e
\* AVERROR_EOF is FFERRTAG('E','O','F',' ')
AVERROR_EOF == -541478725
AV_PKT_FLAG_KEY == 1

(***************************************************************************)
(* Strings the source compares are sequences of character codes.           *)
(***************************************************************************)
\* the literals of the source
L_cqp == <<99, 113, 112>>
L_vbr == <<118, 98, 114>>
L_CBR == <<67, 66, 82>>
L_VBR == <<86, 66, 82>>
\* values of the "rate_control" setting: "CBR", "CQP", "Vbr", "los"
S_CBR == <<67, 66, 82>>
S_CQP == <<67, 81, 80>>
S_Vbr == <<86, 98, 114>>
S_los == <<108, 111, 115>>

ToUpper(c) == IF c \in 97..122 THEN c - 32 ELSE c

\* the character at position i of a C string, 0 at and after its terminator
CharAt(s, i) == IF i <= Len(s) THEN s[i] ELSE 0

RECURSIVE AstrcmpiFrom(_, _, _)
AstrcmpiFrom(a, b, i) ==
    LET ch1 == ToUpper(CharAt(a, i))
        ch2 == ToUpper(CharAt(b, i))
    IN  IF ch1 < ch2 THEN -1
        ELSE IF ch1 > ch2 THEN 1
        ELSE IF CharAt(a, i) = 0 \/ CharAt(b, i) = 0 THEN 0
        ELSE AstrcmpiFrom(a, b, i + 1)

astrcmpi(a, b) == AstrcmpiFrom(a, b, 1)

(***************************************************************************)
(* Pixel formats.                                                          *)
(***************************************************************************)
valid_format(format) == format = "I420" \/ format = "NV12"

\* a resolution that takes the proposed format before the preferred one
ResolveFormat_ProposedFirst(pref_format, info_format) ==
    IF valid_format(info_format) THEN info_format
    ELSE IF valid_format(pref_format) THEN pref_format ELSE "NV12"

\* ffmpeg_amf_video_info: the format written back to info->format
ResolveFormat(pref_format, info_format) ==
    IF ~valid_format(pref_format)
    THEN (IF valid_format(info_format) THEN info_format ELSE "NV12")
    ELSE pref_format

obs_to_ffmpeg_video_format(format) ==
    CASE format = "I420" -> "AV_PIX_FMT_YUV420P"
      [] format = "NV12" -> "AV_PIX_FMT_NV12"
      [] OTHER -> "AV_PIX_FMT_NONE"

NULL == [null |-> TRUE]

(***************************************************************************)
(* The inputs of a session: the host's settings object, the video output   *)
(* the encoder is attached to and the encoder object.                      *)
(***************************************************************************)
MkSettings(rc, bitrate, cqp, keyint_sec) ==
    [rate_control |-> rc, bitrate |-> bitrate, cqp |-> cqp,
     keyint_sec |-> keyint_sec, preset |-> "quality", profile |-> "high"]

MkVideo(format, colorspace, range, fps_num, fps_den, width, height, pref) ==
    [format |-> format, colorspace |-> colorspace, range |-> range,
     fps_num |-> fps_num, fps_den |-> fps_den,
     width |-> width, height |-> height, preferred_format |-> pref]

\* the settings update is called with
UpdateSettings ==
    {MkSettings(S_CBR, 6000, 20, 1), MkSettings(S_Vbr, 3000, 20, 1),
     MkSettings(S_CQP, 6000, 25, 1), MkSettings(S_los, 6000, 20, 1)}

VideoA ==
    MkVideo("NV12", "VIDEO_CS_709", "VIDEO_RANGE_PARTIAL", 30, 1, 4, 2,
            "NONE")
VideoB ==
    MkVideo("RGBA", "VIDEO_CS_601", "VIDEO_RANGE_FULL", 30000, 1001, 6, 3,
            "I420")

\* what a session is created with: the settings and the video output
CreateInputs ==
    {<<MkSettings(S_CBR, 2500, 20, 2), VideoA>>,
     <<MkSettings(S_CQP, 2500, 20, 0), VideoB>>,
     <<MkSettings(S_Vbr, 6000, 20, 2), VideoB>>,
     <<MkSettings(S_los, 2500, 20, 2), VideoA>>}

\* the extradata a codec session exposes once opened with a global header
Extradatas == {<<>>, <<103, 104>>}

(***************************************************************************)
(* AVCodecContext.                                                         *)
(***************************************************************************)
\* the context as avcodec_alloc_context3 returns it (libavcodec's defaults)
avcodec_alloc_context3 ==
    [global_header |-> FALSE,
     priv_data |-> [profile |-> "", preset |-> "", rc |-> "", level |-> "",
                    twopass |-> -1],
     bit_rate |-> 200000, rc_min_rate |-> 0, rc_max_rate |-> 0,
     rc_buffer_size |-> 0, global_quality |-> 0,
     width |-> 0, height |-> 0, time_base |-> <<0, 1>>,
     pix_fmt |-> "AV_PIX_FMT_NONE",
     color_range |-> "AVCOL_RANGE_UNSPECIFIED",
     color_trc |-> "AVCOL_TRC_UNSPECIFIED",
     color_primaries |-> "AVCOL_PRI_UNSPECIFIED",
     colorspace |-> "AVCOL_SPC_UNSPECIFIED",
     gop_size |-> 12,
     extradata |-> <<>>]

\* a rate control whose variable-bitrate branch sets the minimum rate too
UpdateRateControl_VbrMin(ctx, rc, bitrate, cqp) ==
    IF astrcmpi(rc, L_cqp) = 0
    THEN [ctx EXCEPT !.priv_data.rc = "cqp", !.global_quality = cqp]
    ELSE LET rate == bitrate * 1000
         IN  IF astrcmpi(rc, L_vbr) = 0
             THEN [ctx EXCEPT !.priv_data.rc = "vbr_peak",
                              !.rc_min_rate = rate,
                              !.rc_max_rate = rate]
             ELSE [ctx EXCEPT !.priv_data.rc = "cbr",
                              !.rc_min_rate = rate,
                              !.rc_max_rate = rate]

\* the rate-control part of ffmpeg_amf_update
UpdateRateControl(ctx, rc, bitrate, cqp) ==
    IF astrcmpi(rc, L_cqp) = 0
    THEN [ctx EXCEPT !.priv_data.rc = "cqp", !.global_quality = cqp]
    ELSE LET rate == bitrate * 1000
         IN  IF astrcmpi(rc, L_vbr) = 0
             THEN [ctx EXCEPT !.priv_data.rc = "vbr_peak",
                              !.rc_max_rate = rate]
             ELSE [ctx EXCEPT !.priv_data.rc = "cbr",
                              !.rc_min_rate = rate,
                              !.rc_max_rate = rate]

\* the bitrate local of ffmpeg_amf_update after the rate-control branch
UpdateBitrate(rc, bitrate) == IF astrcmpi(rc, L_cqp) = 0 THEN 0 ELSE bitrate

\* a switch in which sRGB falls into the BT.709 case
UpdateColor_SrgbAs709(ctx, colorspace) ==
    CASE colorspace = "VIDEO_CS_601" ->
           [ctx EXCEPT !.color_trc = "AVCOL_TRC_SMPTE170M",
                       !.color_primaries = "AVCOL_PRI_SMPTE170M",
                       !.colorspace = "AVCOL_SPC_SMPTE170M"]
      [] colorspace \in {"VIDEO_CS_DEFAULT", "VIDEO_CS_709",
                         "VIDEO_CS_SRGB"} ->
           [ctx EXCEPT !.color_trc = "AVCOL_TRC_BT709",
                       !.color_primaries = "AVCOL_PRI_BT709",
                       !.colorspace = "AVCOL_SPC_BT709"]
      [] OTHER -> ctx

\* the color part of ffmpeg_amf_update (a switch with no default case)
UpdateColor(ctx, colorspace) ==
    CASE colorspace = "VIDEO_CS_601" ->
           [ctx EXCEPT !.color_trc = "AVCOL_TRC_SMPTE170M",
                       !.color_primaries = "AVCOL_PRI_SMPTE170M",
                       !.colorspace = "AVCOL_SPC_SMPTE170M"]
      [] colorspace \in {"VIDEO_CS_DEFAULT", "VIDEO_CS_709"} ->
           [ctx EXCEPT !.color_trc = "AVCOL_TRC_BT709",
                       !.color_primaries = "AVCOL_PRI_BT709",
                       !.colorspace = "AVCOL_SPC_BT709"]
      [] colorspace = "VIDEO_CS_SRGB" ->
           [ctx EXCEPT !.color_trc = "AVCOL_TRC_IEC61966_2_1",
                       !.color_primaries = "AVCOL_PRI_BT709",
                       !.colorspace = "AVCOL_SPC_BT709"]
      [] OTHER -> ctx

\* the keyframe interval of ffmpeg_amf_update: an integer product and an
\* integer division, which truncates (the settings keep keyint_sec in 0..10,
\* so the product stays far below 2^32)
GopSize(keyint_sec, fps_num, fps_den) ==
    IF keyint_sec # 0
    THEN (keyint_sec * fps_num) \div fps_den
    ELSE 250

\* ffmpeg_amf_update up to its call of ffmpeg_amf_init_codec: the context
\* it leaves.  The settings keep bitrate in 50..300000, so bitrate * 1000
\* is the same number as an int and as an int64_t.
ffmpeg_amf_update(ctx, settings, video) ==
    LET rc == settings.rate_control
        bitrate0 == settings.bitrate
        cqp == settings.cqp
        keyint_sec == settings.keyint_sec
        format == ResolveFormat(video.preferred_format, video.format)
        c1 == [ctx EXCEPT !.priv_data.profile = settings.profile,
                          !.priv_data.preset = settings.preset]
        c2 == UpdateRateControl(c1, rc, bitrate0, cqp)
        rate == UpdateBitrate(rc, bitrate0) * 1000
        c3 == [c2 EXCEPT !.priv_data.level = "auto",
                         !.priv_data.twopass = 0,
                         !.bit_rate = rate,
                         !.rc_buffer_size = rate,
                         !.width = video.width,
                         !.height = video.height,
                         !.time_base = <<video.fps_den, video.fps_num>>,
                         !.pix_fmt = obs_to_ffmpeg_video_format(format),
                         !.color_range =
                             IF video.range = "VIDEO_RANGE_FULL"
                             THEN "AVCOL_RANGE_JPEG" ELSE "AVCOL_RANGE_MPEG"]
        c4 == UpdateColor(c3, video.colorspace)
    IN  [c4 EXCEPT !.gop_size =
                       GopSize(keyint_sec, video.fps_num, video.fps_den)]

(***************************************************************************)
(* copy_data: the host's frame copied into the session's frame.  A plane   *)
(* pointer is NULL or a buffer, [bytes |-> its bytes] (offset o of the C   *)
(* buffer is element o + 1); a frame is its planes and their row strides.  *)
(***************************************************************************)
MAX_AV_PLANES == 8
Planes == 0 .. MAX_AV_PLANES - 1

\* av_pix_fmt_get_chroma_sub_sample: the vertical shift of the two formats
v_chroma_shift(format) ==
    CASE format = "AV_PIX_FMT_YUV420P" -> 1
      [] format = "AV_PIX_FMT_NV12" -> 1

\* h >> s for h >= 0
Shr(h, s) == IF s = 0 THEN h ELSE h \div 2

\* the planes a frame of the format has
PlaneCount(format) == IF format = "AV_PIX_FMT_YUV420P" THEN 3 ELSE 2

\* the rows of a plane of a frame of the height: chroma planes of a 4:2:0
\* frame have half the rows, rounded up
PlaneRows(plane, height) == IF plane = 0 THEN height ELSE (height + 1) \div 2

\* memcpy(dst + dpos, src + spos, n): the destination after it
Memcpy(dst, dpos, src, spos, n) ==
    IF n <= 0 THEN dst
    ELSE [bytes |->
             [i \in 1 .. Len(dst.bytes) |->
                 IF i - 1 \in dpos .. (dpos + n - 1)
                 THEN src.bytes[spos + (i - 1 - dpos) + 1]
                 ELSE dst.bytes[i]]]

\* the loop over y of copy_data, from row y on
RECURSIVE CopyRows(_, _, _, _, _, _, _)
CopyRows(dst, src, y, plane_height, pic_rowsize, frame_rowsize, bytes) ==
    IF y >= plane_height THEN dst
    ELSE CopyRows(Memcpy(dst, y * pic_rowsize, src, y * frame_rowsize, bytes),
                  src, y + 1, plane_height, pic_rowsize, frame_rowsize, bytes)

\* int plane_height = height >> (plane ? v_chroma_shift : 0)
plane_height(plane, height, format) ==
    Shr(height, IF plane # 0 THEN v_chroma_shift(format) ELSE 0)

\* int bytes = frame_rowsize < pic_rowsize ? frame_rowsize : pic_rowsize
RowBytes(frame_rowsize, pic_rowsize) ==
    IF frame_rowsize < pic_rowsize THEN frame_rowsize ELSE pic_rowsize

\* the offsets the memcpy calls of one plane touch, rows of rowsize
Touched(plane, rows, rowsize, bytes) ==
    {<<plane, y * rowsize + x>> : y \in 0 .. rows - 1, x \in 0 .. bytes - 1}

\* copy_data: the frame pic after it, and the offsets read and written
copy_data(pic, frame, height, format) ==
    LET copied(plane) == frame.data[plane] # NULL
        bytes(plane) == RowBytes(frame.linesize[plane], pic.linesize[plane])
        rows(plane) == plane_height(plane, height, format)
    IN  [pic |-> [pic EXCEPT !.data =
                     [plane \in Planes |->
                         IF copied(plane)
                         THEN CopyRows(pic.data[plane], frame.data[plane], 0,
                                       rows(plane), pic.linesize[plane],
                                       frame.linesize[plane], bytes(plane))
                         ELSE pic.data[plane]]],
         reads |-> UNION {IF copied(plane)
                          THEN Touched(plane, rows(plane),
                                       frame.linesize[plane], bytes(plane))
                          ELSE {} : plane \in Planes},
         writes |-> UNION {IF copied(plane)
                           THEN Touched(plane, rows(plane),
                                        pic.linesize[plane], bytes(plane))
                           ELSE {} : plane \in Planes}]

\* base_get_alignment(): the alignment av_frame_get_buffer is asked for
\* (libobs aligns to 32 bytes; the frames here are a few pixels wide and
\* their rows are aligned to 4)
base_get_alignment == 4

\* n rounded up to a multiple of a
Align(n, a) == ((n + a - 1) \div a) * a

\* the bytes of a row of a plane of a frame of the width
PlaneRowBytes(format, plane, width) ==
    IF plane = 0 THEN width
    ELSE IF format = "AV_PIX_FMT_YUV420P" THEN (width + 1) \div 2
    ELSE 2 * ((width + 1) \div 2)

\* av_frame_get_buffer(frame, align): zeroed planes of the frame's format,
\* the rows of a plane padded to the alignment
FrameBuffer(format, width, height, align) ==
    LET linesize(plane) == Align(PlaneRowBytes(format, plane, width), align)
    IN  [data |-> [plane \in Planes |->
                      IF plane < PlaneCount(format)
                      THEN [bytes |->
                               [i \in 1 .. PlaneRows(plane, height)
                                             * linesize(plane) |-> 0]]
                      ELSE NULL],
         linesize |-> [plane \in Planes |->
                          IF plane < PlaneCount(format) THEN linesize(plane)
                          ELSE 0]]

\* the frame the host passes to encode with the pts: nplanes planes, rows
\* of linesize bytes, every byte of it different from every other and from
\* zero
HostFrame(nplanes, height, linesize, pts) ==
    [data |-> [plane \in Planes |->
                  IF plane < nplanes
                  THEN [bytes |->
                           [i \in 1 .. PlaneRows(plane, height) * linesize
                               |-> 7 * pts + 32 * plane + i]]
                  ELSE NULL],
     linesize |-> [plane \in Planes |->
                      IF plane < nplanes THEN linesize ELSE 0]]

(***************************************************************************)
(* State.                                                                  *)
(***************************************************************************)
VARIABLES
    build,      \* what the preprocessor selected: [sendrecv, dynbitrate]
    pc,         \* the position of the one thread that calls the handlers
    enc,        \* struct ffmpeg_amf_encoder (its bytes, also once freed)
    live,       \* the allocations outstanding
    codec,      \* the libavcodec session behind enc.context
    call,       \* locals of the handler in progress
    encoder,    \* the obs_encoder_t: its video output and last error
    host,       \* what the handlers handed to the host
    hist        \* history: what has been called, in numbers

vars == <<build, pc, enc, live, codec, call, encoder, host, hist>>

\* LIBAVFORMAT_VERSION_INT >= 57.40.101 selects avcodec_send_frame /
\* avcodec_receive_packet; LIBAVCODEC_VERSION_INT >= 58.19.101 selects the
\* body of ffmpeg_amf_reconfigure.  A libavcodec that new comes with a
\* libavformat that new.
Builds ==
    {[sendrecv |-> FALSE, dynbitrate |-> FALSE],
     [sendrecv |-> TRUE, dynbitrate |-> FALSE],
     [sendrecv |-> TRUE, dynbitrate |-> TRUE]}

\* bzalloc(sizeof(*enc)) and the three assignments that follow it
NewEnc(found) ==
    [ffmpeg_amf |-> found, context |-> NULL, vframe |-> NULL,
     buffer |-> <<>>, header |-> <<>>, height |-> 0,
     first_packet |-> TRUE, initialized |-> FALSE]

ClosedCodec ==
    [open |-> FALSE, eos |-> FALSE, inq |-> <<>>, outq |-> <<>>, nprod |-> 0]

NoCall == [op |-> "none", ret |-> 0, out |-> <<>>]

NoPacket == [data |-> <<>>, size |-> 0, pts |-> 0, dts |-> 0,
             type |-> "unset", keyframe |-> FALSE]

Init ==
    /\ build \in Builds
    /\ pc = "none"
    /\ enc = NULL
    /\ live = {}
    /\ codec = ClosedCodec
    /\ call = NoCall
    /\ encoder = [video |-> NULL, last_error |-> "NULL"]
    /\ host = [session |-> "none", packet |-> NoPacket,
               received_packet |-> FALSE]
    /\ hist = [encodes |-> 0, destroys |-> 0, drained |-> 0,
               delivered |-> 0, last_seq |-> 0, sends |-> 0, recvs |-> 0,
               create_failed_at |-> "none", eos_signalled |-> FALSE,
               drain_error |-> FALSE, left_in_codec |-> 0,
               closed |-> FALSE, after_free |-> "none"]

(***************************************************************************)
(* create                                                                  *)
(***************************************************************************)
\* the first step of ffmpeg_amf_create / ffmpeg_amf_init_codec that fails
FailPoints ==
    {"none", "find_encoder", "alloc_context", "open", "frame_alloc",
     "frame_get_buffer"}

\* a teardown that enters the drain loop whatever the flag says
DestroyEntry_Always(initialized) == "drain"

\* ffmpeg_amf_destroy, line 259: the drain loop runs only when initialized
DestroyEntry(initialized) == IF initialized THEN "drain" ELSE "close"

\* a frame made with width and height exchanged
NewFrame_Swapped(ctx) ==
    [format |-> ctx.pix_fmt, width |-> ctx.height, height |-> ctx.width,
     colorspace |-> ctx.colorspace, color_range |-> ctx.color_range,
     pts |-> 0, has_buffer |-> FALSE,
     data |-> [plane \in Planes |-> NULL],
     linesize |-> [plane \in Planes |-> 0]]

\* ffmpeg_amf_init_codec, lines 119-123: the frame made for the context
NewFrame(ctx) ==
    [format |-> ctx.pix_fmt, width |-> ctx.width, height |-> ctx.height,
     colorspace |-> ctx.colorspace, color_range |-> ctx.color_range,
     pts |-> 0, has_buffer |-> FALSE,
     data |-> [plane \in Planes |-> NULL],
     linesize |-> [plane \in Planes |-> 0]]

\* the text of NVENC.Error, a blank line and NVENC.CheckDrivers
CheckDriversMessage == "NVENC.Error NVENC.CheckDrivers"

\* an open failure that stores its message over the text already there
OpenFailureError_Overwrite(last_error) == CheckDriversMessage

\* ffmpeg_amf_init_codec, lines 95-108: the encoder's last error after
\* avcodec_open2 failed
OpenFailureError(last_error) ==
    IF last_error = "NULL" THEN CheckDriversMessage ELSE last_error

\* ffmpeg_amf_init_codec on a configured context: [ok, enc, live, codec,
\* last_error]
ffmpeg_amf_init_codec(e, lv, fail, xd, last_error) ==
    LET ctx == [e.context EXCEPT !.global_header = TRUE]
        e1 == [e EXCEPT !.context = ctx]
    IN  IF fail = "open"
        THEN [ok |-> FALSE, enc |-> e1, live |-> lv, codec |-> ClosedCodec,
              last_error |-> OpenFailureError(last_error)]
        ELSE
        LET ctx2 == [ctx EXCEPT !.extradata = xd]
            cd == [ClosedCodec EXCEPT !.open = TRUE]
            lv2 == lv \cup {"codec"}
            e2 == [e EXCEPT !.context = ctx2]
        IN  IF fail = "frame_alloc"
            THEN [ok |-> FALSE, enc |-> e2, live |-> lv2, codec |-> cd,
                  last_error |-> last_error]
            ELSE
            LET vf == NewFrame(ctx2)
                e3 == [e2 EXCEPT !.vframe = vf]
                buf == FrameBuffer(vf.format, vf.width, vf.height,
                                   base_get_alignment)
            IN  IF fail = "frame_get_buffer"
                THEN [ok |-> FALSE, enc |-> e3, live |-> lv2 \cup {"vframe"},
                      codec |-> cd, last_error |-> last_error]
                ELSE [ok |-> TRUE,
                      enc |-> [e3 EXCEPT !.vframe.has_buffer = TRUE,
                                         !.vframe.data = buf.data,
                                         !.vframe.linesize = buf.linesize,
                                         !.initialized = TRUE],
                      live |-> lv2 \cup {"vframe", "vframe_data"},
                      codec |-> cd, last_error |-> last_error]

\* ffmpeg_amf_create up to `return enc` or `goto fail`: [ok, enc, live,
\* codec, last_error]
ffmpeg_amf_create(settings, video, fail, xd, last_error) ==
    LET e0 == NewEnc(fail # "find_encoder")
    IN  IF ~e0.ffmpeg_amf
        THEN [ok |-> FALSE, enc |-> e0, live |-> {"enc"},
              codec |-> ClosedCodec,
              last_error |-> "Couldn't find AMF encoder"]
        ELSE IF fail = "alloc_context"
        THEN [ok |-> FALSE, enc |-> e0, live |-> {"enc"},
              codec |-> ClosedCodec, last_error |-> last_error]
        ELSE
        LET ctx == ffmpeg_amf_update(avcodec_alloc_context3, settings, video)
            e1 == [e0 EXCEPT !.context = ctx, !.height = ctx.height]
        IN  ffmpeg_amf_init_codec(e1, {"enc", "context"}, fail, xd,
                                  last_error)

Create ==
    /\ pc = "none"
    /\ \E in \in CreateInputs, fail \in FailPoints, xd \in Extradatas :
          LET settings == in[1]
              video == in[2]
              r == ffmpeg_amf_create(settings, video, fail, xd,
                                     encoder.last_error)
          IN  /\ enc' = r.enc
              /\ live' = r.live
              /\ codec' = r.codec
              /\ encoder' = [video |-> video, last_error |-> r.last_error]
              /\ IF r.ok
                 THEN /\ pc' = "ready"
                      /\ call' = [op |-> "create", ret |-> 1, out |-> <<>>]
                      /\ host' = [host EXCEPT !.session = "enc"]
                      /\ hist' = hist
                 ELSE /\ pc' = DestroyEntry(r.enc.initialized)
                      /\ call' = [NoCall EXCEPT !.op = "create"]
                      /\ host' = host
                      /\ hist' = [hist EXCEPT !.destroys = @ + 1,
                                              !.create_failed_at = fail]
    /\ UNCHANGED build

(***************************************************************************)
(* The libavcodec session: frames it accepted and has not encoded yet      *)
(* (inq, their pts), packets ready to be received (outq), whether it was   *)
(* told the stream ended (eos).                                            *)
(***************************************************************************)
\* the packets a codec makes of a frame: payload and flags (bit 0 is
\* AV_PKT_FLAG_KEY, bit 1 AV_PKT_FLAG_CORRUPT)
PacketKinds ==
    {[data |-> <<>>, flags |-> 1], [data |-> <<1>>, flags |-> 3],
     [data |-> <<2, 3>>, flags |-> 2]}

\* AVPacket av_pkt = {0}
BlankPacket == [seq |-> 0, data |-> <<>>, flags |-> 0, pts |-> 0, dts |-> 0]

Held(cd) == Len(cd.inq) + Len(cd.outq)

\* the hardware finishes the oldest frame it holds
CodecWork ==
    /\ codec.open
    /\ codec.inq # <<>>
    /\ \E k \in PacketKinds :
          codec' = [codec EXCEPT
                      !.inq = Tail(@),
                      !.nprod = @ + 1,
                      !.outq = Append(@, [seq |-> codec.nprod + 1,
                                          data |-> k.data, flags |-> k.flags,
                                          pts |-> Head(codec.inq),
                                          dts |-> Head(codec.inq) - 1])]
    /\ UNCHANGED <<build, pc, enc, live, call, encoder, host, hist>>

\* the results avcodec_send_frame(ctx, frame) can give in this state
SendResults(cd) ==
    IF cd.eos THEN {AVERROR_EOF, AVERROR(EINVAL)}
    ELSE (IF Held(cd) < QueueCap THEN {0} ELSE {})
         \cup (IF Held(cd) > 0 THEN {AVERROR(EAGAIN)} ELSE {})
         \cup {AVERROR(EINVAL)}

\* the results avcodec_receive_packet(ctx, &pkt) can give in this state;
\* after end-of-stream it returns only once a packet is ready or none is due
ReceiveResults(cd) ==
    (IF cd.outq # <<>>
     THEN {[ret |-> 0, pkt |-> Head(cd.outq)]}
     ELSE IF cd.eos
          THEN (IF cd.inq = <<>>
                THEN {[ret |-> AVERROR_EOF, pkt |-> BlankPacket]} ELSE {})
          ELSE {[ret |-> AVERROR(EAGAIN), pkt |-> BlankPacket]})
    \cup {[ret |-> AVERROR(EINVAL), pkt |-> BlankPacket]}

\* the results avcodec_encode_video2(ctx, &pkt, frame, &got) can give once
\* the frame (or, frame = NULL, the end of the stream) is in: it returns a
\* packet when one is ready, and waits for one when it holds more than it can
\* or, flushing, when a frame is still being encoded
EncodeVideo2Results(cd, flushing) ==
    (IF cd.outq # <<>>
     THEN {[ret |-> 0, got |-> 1, pkt |-> Head(cd.outq)]}
     ELSE IF (flushing /\ cd.inq # <<>>) \/ Held(cd) > QueueCap
          THEN {}
          ELSE {[ret |-> 0, got |-> 0, pkt |-> BlankPacket]})
    \cup {[ret |-> AVERROR(EINVAL), got |-> 0, pkt |-> BlankPacket]}

\* the codec after the packet at the head of outq was handed out
Pop(cd) == [cd EXCEPT !.outq = Tail(@)]

(***************************************************************************)
(* encode                                                                  *)
(***************************************************************************)
\* ffmpeg_amf_encode, lines 379-386: ret and got_packet after the pair
\* avcodec_send_frame / avcodec_receive_packet (recv_ret is read only when
\* the frame was sent)
SendRecvRet(send_ret, recv_ret) ==
    LET ret == IF send_ret = 0 THEN recv_ret ELSE send_ret
    IN  [ret |-> IF ret = AVERROR_EOF \/ ret = AVERROR(EAGAIN) THEN 0
                 ELSE ret,
         got_packet |-> (ret = 0)]

\* a keyframe flag that is set by any flag of the packet
KeyFrame_AnyFlag(flags) == flags # 0

\* !!(av_pkt.flags & AV_PKT_FLAG_KEY)
KeyFrame(flags) == (flags \div AV_PKT_FLAG_KEY) % 2 = 1

\* a capture that leaves the first-packet flag set
CaptureHeader_KeepFlag(e) ==
    IF e.first_packet
    THEN [e EXCEPT !.header = IF Len(e.context.extradata) # 0
                              THEN e.context.extradata ELSE @]
    ELSE e

\* da_copy_array(enc->header, extradata, extradata_size) under its two ifs
CaptureHeader(e) ==
    IF e.first_packet
    THEN [e EXCEPT !.header = IF Len(e.context.extradata) # 0
                              THEN e.context.extradata ELSE @,
                   !.first_packet = FALSE]
    ELSE e

\* ffmpeg_amf_encode, lines 391-420: [ok, enc, packet, received_packet]
EncodeOutput(e, ret, got_packet, av_pkt, packet, received_packet) ==
    IF ret < 0
    THEN [ok |-> FALSE, enc |-> e, packet |-> packet,
          received_packet |-> received_packet]
    ELSE IF got_packet /\ Len(av_pkt.data) # 0
    THEN LET e1 == CaptureHeader(e)
             e2 == [e1 EXCEPT !.buffer = av_pkt.data]
         IN  [ok |-> TRUE, enc |-> e2,
              packet |-> [data |-> e2.buffer, size |-> Len(e2.buffer),
                          pts |-> av_pkt.pts, dts |-> av_pkt.dts,
                          type |-> "OBS_ENCODER_VIDEO",
                          keyframe |-> KeyFrame(av_pkt.flags)],
              received_packet |-> TRUE]
    ELSE [ok |-> TRUE, enc |-> e, packet |-> packet,
          received_packet |-> FALSE]

\* the allocations behind the two darrays
DarrayLive(e) ==
    (IF e.buffer # <<>> THEN {"buffer"} ELSE {})
    \cup (IF e.header # <<>> THEN {"header"} ELSE {})

\* ffmpeg_amf_encode up to and including the submission of the frame
EncodeSubmit ==
    /\ pc = "ready"
    /\ hist.encodes < MaxEncodes
    /\ LET pts == hist.encodes + 1
           frame == HostFrame(PlaneCount(enc.context.pix_fmt), enc.height,
                              encoder.video.width, pts)
           copy == copy_data(enc.vframe, frame, enc.height,
                             enc.context.pix_fmt)
       IN  /\ enc' = [enc EXCEPT !.vframe = [copy.pic EXCEPT !.pts = pts]]
           /\ \E r \in (IF build.sendrecv THEN SendResults(codec)
                         ELSE {0, AVERROR(EINVAL)}) :
                 /\ call' = [op |-> "encode", ret |-> r, out |-> <<>>]
                 /\ codec' = IF r = 0
                             THEN [codec EXCEPT !.inq = Append(@, pts)]
                             ELSE codec
    /\ pc' = "encode"
    /\ hist' = [hist EXCEPT !.encodes = @ + 1, !.sends = 1, !.recvs = 0]
    /\ UNCHANGED <<build, live, encoder, host>>

\* the rest of ffmpeg_amf_encode, given what the session answered; answers
\* are the results of the library calls made, in order
EncodeReturn(ret, got_packet, av_pkt, popped, answers) ==
    LET o == EncodeOutput(enc, ret, got_packet, av_pkt, host.packet,
                          host.received_packet)
    IN  /\ enc' = o.enc
        /\ live' = live \cup DarrayLive(o.enc)
        /\ codec' = IF popped THEN Pop(codec) ELSE codec
        /\ host' = [host EXCEPT !.packet = o.packet,
                                !.received_packet = o.received_packet]
        /\ call' = [op |-> "encode", ret |-> IF o.ok THEN 1 ELSE 0,
                    out |-> answers]
        /\ hist' = [hist EXCEPT
                      !.recvs = Len(answers) - 1,
                      !.delivered = IF o.ok /\ o.received_packet
                                    THEN @ + 1 ELSE @,
                      !.last_seq = IF o.ok /\ o.received_packet
                                   THEN av_pkt.seq ELSE @]
        /\ pc' = "ready"
        /\ UNCHANGED <<build, encoder>>

EncodeFinish ==
    /\ pc = "encode"
    /\ IF build.sendrecv
       THEN IF call.ret = 0
            THEN \E rr \in ReceiveResults(codec) :
                    LET sr == SendRecvRet(call.ret, rr.ret)
                    IN  EncodeReturn(sr.ret, sr.got_packet, rr.pkt,
                                     rr.ret = 0, <<call.ret, rr.ret>>)
            ELSE LET sr == SendRecvRet(call.ret, 0)
                 IN  EncodeReturn(sr.ret, sr.got_packet, BlankPacket,
                                  FALSE, <<call.ret>>)
       ELSE IF call.ret = 0
            THEN \E rr \in EncodeVideo2Results(codec, FALSE) :
                    EncodeReturn(rr.ret, rr.got = 1, rr.pkt,
                                 rr.got = 1, <<rr.ret>>)
            ELSE EncodeReturn(call.ret, FALSE, BlankPacket, FALSE,
                              <<call.ret>>)

(***************************************************************************)
(* update, get_extra_data, get_video_info                                  *)
(***************************************************************************)
\* an update that applies the bitrate whatever the rate control is
reconfigure_AnyMode(ctx, settings, dynbitrate) ==
    IF dynbitrate
    THEN [ctx EXCEPT !.bit_rate = settings.bitrate * 1000,
                     !.rc_max_rate = settings.bitrate * 1000]
    ELSE ctx

\* an update that also applies the keyframe interval of the settings
reconfigure_WithGop(ctx, settings, dynbitrate) ==
    LET c == [ctx EXCEPT !.gop_size = settings.keyint_sec * 30]
    IN  IF dynbitrate /\ (astrcmpi(settings.rate_control, L_CBR) = 0
                          \/ astrcmpi(settings.rate_control, L_VBR) = 0)
        THEN [c EXCEPT !.bit_rate = settings.bitrate * 1000,
                       !.rc_max_rate = settings.bitrate * 1000]
        ELSE c

\* ffmpeg_amf_reconfigure: the context it leaves
ffmpeg_amf_reconfigure(ctx, settings, dynbitrate) ==
    IF dynbitrate
    THEN LET bitrate == settings.bitrate
             rc == settings.rate_control
             cbr == astrcmpi(rc, L_CBR) = 0
             vbr == astrcmpi(rc, L_VBR) = 0
         IN  IF cbr \/ vbr
             THEN LET rate == bitrate * 1000
                  IN  [ctx EXCEPT !.bit_rate = rate, !.rc_max_rate = rate]
             ELSE ctx
    ELSE ctx

Reconfigure(settings) ==
    /\ pc = "ready"
    /\ enc' = [enc EXCEPT !.context =
                  ffmpeg_amf_reconfigure(@, settings, build.dynbitrate)]
    /\ call' = [op |-> "update", ret |-> 1, out |-> <<>>]
    /\ UNCHANGED <<build, pc, live, codec, encoder, host, hist>>

\* ffmpeg_amf_extra_data
ExtraData ==
    /\ pc = "ready"
    /\ call' = [op |-> "get_extra_data", ret |-> 1, out |-> enc.header]
    /\ UNCHANGED <<build, pc, enc, live, codec, encoder, host, hist>>

VideoFormats == {"I420", "NV12", "RGBA"}

\* ffmpeg_amf_video_info called by the host with a proposed format
VideoInfo(proposed) ==
    /\ pc = "ready"
    /\ call' = [op |-> "get_video_info", ret |-> 1,
                out |-> <<ResolveFormat(encoder.video.preferred_format,
                                        proposed)>>]
    /\ UNCHANGED <<build, pc, enc, live, codec, encoder, host, hist>>

(***************************************************************************)
(* destroy                                                                 *)
(***************************************************************************)
\* the host calls ffmpeg_amf_destroy on the session create gave it
Destroy ==
    /\ pc = "ready"
    /\ pc' = DestroyEntry(enc.initialized)
    /\ call' = [op |-> "destroy", ret |-> 0, out |-> <<>>]
    /\ hist' = [hist EXCEPT !.destroys = @ + 1]
    /\ UNCHANGED <<build, enc, live, codec, encoder, host>>

\* a loop that goes on after a negative result
DrainNext_KeepsOn(ret, r_pkt) == IF r_pkt # 0 THEN "drain" ELSE "close"

\* one turn of the loop `while (r_pkt)`: the next position, given the
\* result of the call and r_pkt after it
DrainNext(ret, r_pkt) ==
    IF ret < 0 THEN "close"
    ELSE IF r_pkt # 0 THEN "drain" ELSE "close"

\* whether the turn unreferences a packet
DrainUnref(ret, r_pkt) == ret >= 0 /\ r_pkt # 0

\* r_pkt is 1 throughout in the send/receive build, where nothing assigns it
DestroyDrain ==
    /\ pc = "drain"
    /\ \E rr \in (IF build.sendrecv
                   THEN {[ret |-> x.ret, got |-> 1, pkt |-> x.pkt] : x \in
                             ReceiveResults(codec)}
                   ELSE {[ret |-> x.ret, got |-> x.got, pkt |-> x.pkt] : x \in
                             EncodeVideo2Results(codec, TRUE)}) :
          /\ pc' = DrainNext(rr.ret, rr.got)
          /\ codec' = [(IF rr.pkt # BlankPacket
                        THEN Pop(codec) ELSE codec)
                         EXCEPT !.eos = @ \/ ~build.sendrecv]
          /\ hist' = [hist EXCEPT
                        !.drained = IF DrainUnref(rr.ret, rr.got)
                                    THEN @ + 1 ELSE @,
                        !.drain_error =
                            @ \/ rr.ret \notin {0, AVERROR(EAGAIN),
                                                AVERROR_EOF},
                        !.eos_signalled = @ \/ ~build.sendrecv]
    /\ UNCHANGED <<build, enc, live, call, encoder, host>>

\* avcodec_close(enc->context): a no-op on NULL; it ends the session and
\* frees what avcodec_open2 allocated, the extradata included, and leaves
\* the AVCodecContext itself allocated
avcodec_close(ctx) ==
    IF ctx = NULL THEN NULL ELSE [ctx EXCEPT !.extradata = <<>>]

DestroyClose ==
    /\ pc = "close"
    /\ enc' = [enc EXCEPT !.context = avcodec_close(@)]
    /\ codec' = ClosedCodec
    /\ live' = live \ {"codec"}
    /\ hist' = [hist EXCEPT !.closed = TRUE,
                            !.left_in_codec = Held(codec)]
    /\ pc' = "free"
    /\ UNCHANGED <<build, call, encoder, host>>

\* what lines 279-284 release: av_frame_unref, av_frame_free, da_free
\* twice, bfree(enc)
Released == {"vframe_data", "vframe", "buffer", "header", "enc"}

DestroyFree ==
    /\ pc = "free"
    /\ enc' = [enc EXCEPT !.vframe = NULL, !.buffer = <<>>,
                          !.header = <<>>]
    /\ live' = live \ Released
    /\ pc' = "dead"
    /\ IF call.op = "create"
       THEN /\ host' = [host EXCEPT !.session = "null"]
            /\ call' = [op |-> "create", ret |-> 0, out |-> <<>>]
       ELSE /\ host' = host
            /\ call' = call
    /\ UNCHANGED <<build, codec, encoder, hist>>

\* the host calls ffmpeg_amf_destroy again with the pointer it still has:
\* enc->initialized is read from freed memory and may read as anything,
\* enc->context is passed to avcodec_close, the frees are repeated
DestroyAgain ==
    /\ pc = "dead"
    /\ host.session = "enc"
    /\ \E stale_initialized \in BOOLEAN :
          hist' = [hist EXCEPT
                     !.destroys = @ + 1,
                     !.after_free =
                         IF stale_initialized
                         THEN "read, drain, close, free"
                         ELSE "read, close, free"]
    /\ pc' = "undefined"
    /\ UNCHANGED <<build, enc, live, codec, call, encoder, host>>

(***************************************************************************)
(* The specification.                                                      *)
(***************************************************************************)
Next ==
    \/ Create
    \/ EncodeSubmit
    \/ EncodeFinish
    \/ \E s \in UpdateSettings : Reconfigure(s)
    \/ ExtraData
    \/ \E f \in VideoFormats : VideoInfo(f)
    \/ Destroy
    \/ DestroyDrain
    \/ DestroyClose
    \/ DestroyFree
    \/ DestroyAgain
    \/ CodecWork

Spec == Init /\ [][Next]_vars

\* the thread inside ffmpeg_amf_destroy goes on to its next statement, and
\* the hardware finishes the frames it holds
SpecFair ==
    /\ Spec
    /\ WF_vars(DestroyDrain)
    /\ WF_vars(DestroyClose)
    /\ WF_vars(DestroyFree)
    /\ WF_vars(CodecWork)

(***************************************************************************)
(* Configuration: a session created from settings and a video output drawn *)
(* from the whole range the properties allow, then updated with the same   *)
(* rate control and asked for its video format.                            *)
(***************************************************************************)
\* values of "rate_control": those of the list, other spellings, others
RateControls == {S_CBR, S_CQP, S_Vbr, S_los, L_cqp, L_VBR, <<>>}

\* values of "bitrate": the ends of 50..300000 and two between
Bitrates == {50, 2500, 6000, 300000}

\* values of "cqp": the ends of 1..30 and the default
CqpLevels == {1, 20, 30}

\* values of "keyint_sec": 0..10
KeyintSecs == 0 .. 10

\* frame rates of a video output, <<fps_num, fps_den>>
FrameRates ==
    {<<30, 1>>, <<60, 1>>, <<25, 1>>, <<24000, 1001>>, <<30000, 1001>>,
     <<60000, 1001>>}

\* enum video_colorspace and enum video_range_type as the switch sees them
Colorspaces ==
    {"VIDEO_CS_DEFAULT", "VIDEO_CS_601", "VIDEO_CS_709", "VIDEO_CS_SRGB",
     "VIDEO_CS_2100_PQ"}
Ranges == {"VIDEO_RANGE_DEFAULT", "VIDEO_RANGE_PARTIAL", "VIDEO_RANGE_FULL"}

\* enum video_format: the output's format and the encoder's preferred one
OutputFormats == {"I420", "NV12", "RGBA", "I444"}
PreferredFormats == {"NONE", "I420", "NV12", "RGBA"}

\* what a session is configured with: each group of inputs over its range,
\* the others at the defaults of amf_defaults
ConfigureInputs ==
    {<<MkSettings(rc, b, q, 2), VideoA>> :
        rc \in RateControls, b \in Bitrates, q \in CqpLevels}
    \cup {<<MkSettings(S_CBR, 2500, 20, k),
            MkVideo("NV12", "VIDEO_CS_709", "VIDEO_RANGE_PARTIAL",
                    r[1], r[2], 4, 2, "NONE")>> :
             k \in KeyintSecs, r \in FrameRates}
    \cup {<<MkSettings(S_CBR, 2500, 20, 2),
            MkVideo("NV12", cs, rg, 30, 1, 4, 2, "NONE")>> :
             cs \in Colorspaces, rg \in Ranges}
    \cup {<<MkSettings(S_CBR, 2500, 20, 2),
            MkVideo(f, "VIDEO_CS_709", "VIDEO_RANGE_PARTIAL", 30, 1, 6, 3,
                    p)>> :
             f \in OutputFormats, p \in PreferredFormats}

\* obs_encoder_get_last_error before the session is created: none, or a
\* text stored earlier
LastErrors == {"NULL", "No AMF device"}

InitConfigure ==
    /\ build \in Builds
    /\ pc = "none"
    /\ enc = NULL
    /\ live = {}
    /\ codec = ClosedCodec
    /\ call = NoCall
    /\ \E in \in ConfigureInputs, le \in LastErrors :
          encoder = [video |-> in[2], last_error |-> le, settings |-> in[1]]
    /\ host = [session |-> "none", packet |-> NoPacket,
               received_packet |-> FALSE]
    /\ hist = [encodes |-> 0, destroys |-> 0, drained |-> 0,
               delivered |-> 0, last_seq |-> 0, sends |-> 0, recvs |-> 0,
               create_failed_at |-> "none", eos_signalled |-> FALSE,
               drain_error |-> FALSE, left_in_codec |-> 0,
               closed |-> FALSE, after_free |-> "none"]

\* ffmpeg_amf_create with the encoder's settings and video output
Configure ==
    /\ pc = "none"
    /\ \E fail \in FailPoints, xd \in Extradatas :
          LET r == ffmpeg_amf_create(encoder.settings, encoder.video, fail,
                                     xd, encoder.last_error)
          IN  /\ enc' = r.enc
              /\ live' = r.live
              /\ codec' = r.codec
              /\ encoder' = [encoder EXCEPT !.last_error = r.last_error]
              /\ IF r.ok
                 THEN /\ pc' = "ready"
                      /\ call' = [op |-> "create", ret |-> 1, out |-> <<>>]
                      /\ host' = [host EXCEPT !.session = "enc"]
                      /\ hist' = hist
                 ELSE /\ pc' = DestroyEntry(r.enc.initialized)
                      /\ call' = [NoCall EXCEPT !.op = "create"]
                      /\ host' = host
                      /\ hist' = [hist EXCEPT !.destroys = @ + 1,
                                              !.create_failed_at = fail]
    /\ UNCHANGED build

\* the settings of an update that changes the bitrate alone
SameControl(settings) == {[settings EXCEPT !.bitrate = b] : b \in Bitrates}

NextConfigure ==
    \/ Configure
    \/ \E s \in SameControl(encoder.settings) : Reconfigure(s)
    \/ \E f \in VideoFormats : VideoInfo(f)
    \/ DestroyClose
    \/ DestroyFree

SpecConfigure == InitConfigure /\ [][NextConfigure]_vars

(***************************************************************************)
(* Properties.                                                             *)
(***************************************************************************)
\* the session is in the host's hands: created, not yet being destroyed
InUse == pc \in {"ready", "encode"}

\* C1: when destroy runs on a session that was opened, it drains the codec
\* (end of stream signalled, packets received until none is left), so that
\* after any number of encode calls nothing, no frame being encoded and no
\* ready packet, is still held by the codec when the session is closed.
\* (A drain cut short by a hard error of the retrieval is set aside.)
C1_NothingLeftAtClose ==
    (hist.closed /\ hist.create_failed_at = "none" /\ ~hist.drain_error)
        => hist.left_in_codec = 0

\* C2: the header buffer is empty until the first encode call that produces
\* a non-empty packet, is set from the session's extradata on that call and
\* the first-packet flag cleared, and is changed by no other step of the
\* session's life (encode, update, get_extra_data, get_video_info).
C2_HeaderOnce ==
    /\ [](InUse => (enc.first_packet => enc.header = <<>>))
    /\ [][(InUse /\ InUse') =>
            /\ (enc'.header # enc.header \/ enc'.first_packet # enc.first_packet)
                  => /\ pc = "encode" /\ pc' = "ready"
                     /\ call'.ret = 1 /\ host'.received_packet
                     /\ host'.packet.size > 0
                     /\ enc.first_packet /\ enc.header = <<>>
            /\ (pc = "encode" /\ pc' = "ready" /\ call'.ret = 1
                 /\ host'.received_packet /\ enc.first_packet)
                  => /\ enc'.header = enc.context.extradata
                     /\ ~enc'.first_packet]_vars

\* C2, reached: a second packet was delivered after the header was captured
C2_Witness ==
    /\ pc = "ready"
    /\ hist.delivered >= 2
    /\ ~enc.first_packet
    /\ enc.header = <<103, 104>>

\* C3: once destroy has returned, nothing the session acquired is still
\* allocated (frame, frame data, output buffer, header buffer, the codec
\* context, the struct), and the buffers and the struct are freed only
\* after the session was closed.
C3_NothingOutstanding ==
    /\ pc = "dead" => live = {}
    /\ (pc \notin {"none"} /\ "enc" \notin live) => hist.closed

\* C4: a second destroy on the same session does nothing: no codec call, no
\* release, no read of what the first destroy freed.
C4_SecondDestroyInert == hist.destroys >= 2 => hist.after_free = "none"

\* C5: create hands out a session only if the codec lookup, the context
\* allocation, the session open, the frame allocation and the frame-buffer
\* allocation all succeeded; if one of them fails it returns null after
\* one run of the teardown in which the drain loop is skipped (nothing
\* received, no end of stream), and no partial session stays: the session
\* is closed and the struct, the frame and the buffers are freed.
C5_CreateAllOrNothing ==
    /\ host.session = "enc" =>
          /\ hist.create_failed_at = "none"
          /\ ("enc" \in live =>
                /\ enc.ffmpeg_amf
                /\ enc.context # NULL /\ "context" \in live
                /\ enc.vframe # NULL /\ "vframe" \in live
                /\ enc.vframe.has_buffer /\ "vframe_data" \in live
                /\ (codec.open \/ hist.closed))
    /\ hist.create_failed_at # "none" =>
          /\ host.session # "enc"
          /\ pc \in {"close", "free", "dead"}
          /\ call.op = "create"
          /\ hist.destroys = 1
          /\ hist.drained = 0 /\ ~hist.eos_signalled
          /\ hist.encodes = 0
    /\ (pc = "dead" /\ call.op = "create") =>
          /\ host.session = "null"
          /\ call.ret = 0
          /\ hist.create_failed_at # "none"
          /\ hist.closed /\ ~codec.open
          /\ live \cap {"enc", "codec", "vframe", "vframe_data", "buffer",
                         "header"} = {}
    /\ host.session = "null" => (pc = "dead" /\ call.op = "create")

\* C5, reached: create returned null because the frame buffer could not be
\* allocated, after the session had been opened
C5_Witness ==
    /\ host.session = "null"
    /\ hist.create_failed_at = "frame_get_buffer"
    /\ pc = "dead"

\* what the session answered to the encode call that has just returned
EncodeReturned == pc = "ready" /\ call.op = "encode"
Retrieved == build.sendrecv /\ Len(call.out) = 2
RetrievalAnswer == call.out[2]

\* C6: an encode call returns success without a packet when the retrieval
\* answered EAGAIN or EOF, and returns failure on every other negative
\* answer of the session.
C6_EncodeAnswers ==
    EncodeReturned =>
        /\ (Retrieved /\ RetrievalAnswer \in {AVERROR(EAGAIN), AVERROR_EOF})
              => (call.ret = 1 /\ ~host.received_packet)
        /\ (\E i \in 1..Len(call.out) :
                /\ call.out[i] < 0
                /\ ~(Retrieved /\ i = 2
                     /\ call.out[i] \in {AVERROR(EAGAIN), AVERROR_EOF}))
              => call.ret = 0

\* C7: each encode call submits one frame and receives at most one packet;
\* the packets delivered never outnumber the encode calls; a delivering call
\* takes the oldest packet the codec holds, so packets arrive in the order
\* the codec made them and none twice; and the packet handed out has that
\* packet's bytes (the output buffer holding exactly them), its pts, its
\* dts, keyframe set exactly when bit 0 of its flags is set, and the kind
\* video.
C7_OnePacketPerCall ==
    /\ [](/\ hist.delivered <= hist.encodes
           /\ hist.sends <= 1 /\ hist.recvs <= 1
           /\ (call.op = "encode" => hist.sends = 1))
    /\ [][(pc = "encode" /\ pc' = "ready") =>
            IF call'.ret = 1 /\ host'.received_packet
            THEN /\ codec.outq # <<>>
                 /\ LET p == Head(codec.outq)
                    IN  /\ host'.packet =
                              [data |-> p.data, size |-> Len(p.data),
                               pts |-> p.pts, dts |-> p.dts,
                               type |-> "OBS_ENCODER_VIDEO",
                               keyframe |-> (p.flags \in {1, 3})]
                        /\ enc'.buffer = p.data
                        /\ p.seq > hist.last_seq
                        /\ hist'.last_seq = p.seq
                 /\ codec'.outq = Tail(codec.outq)
                 /\ hist'.delivered = hist.delivered + 1
            ELSE /\ hist'.delivered = hist.delivered
                 /\ hist'.last_seq = hist.last_seq]_vars

\* C7, reached: the third call delivered the second packet, which is no
\* keyframe though its flags are not zero
C7_Witness ==
    /\ EncodeReturned /\ host.received_packet
    /\ hist.delivered = 2 /\ hist.encodes = 3
    /\ host.packet.data = <<2, 3>> /\ ~host.packet.keyframe
    /\ host.packet.pts = 2 /\ host.packet.dts = 1

\* C8: while the struct is allocated, the opened flag is set only if
\* create went through (session opened, frame and frame data allocated);
\* every session in the host's hands has the flag set, so an encode runs
\* only with it set; and with the flag set the frame's width, height and
\* pixel format and the stored height equal the context's, whatever encode
\* and update calls were made.
C8_OpenedInvariant ==
    /\ ("enc" \in live /\ enc.initialized) =>
          /\ hist.create_failed_at = "none"
          /\ (codec.open \/ hist.closed)
          /\ enc.context # NULL
          /\ enc.vframe # NULL /\ enc.vframe.has_buffer
          /\ {"vframe", "vframe_data"} \subseteq live
          /\ enc.vframe.width = enc.context.width
          /\ enc.vframe.height = enc.context.height
          /\ enc.vframe.format = enc.context.pix_fmt
          /\ enc.height = enc.context.height
    /\ (host.session = "enc" /\ "enc" \in live) => enc.initialized
    /\ InUse => (enc.initialized /\ codec.open)

\* C8, reached: an opened session after encode and update calls
C8_Witness ==
    /\ pc = "ready" /\ call.op = "update"
    /\ hist.encodes >= 2 /\ hist.delivered >= 1
    /\ enc.initialized
    /\ enc.vframe.width = 4 /\ enc.vframe.height = 2
    /\ enc.context.bit_rate = 6000000

\* the values of "rate_control" that name constant or variable bitrate
BitrateModes == {S_CBR, S_Vbr}

\* the four rate fields of the context
RateFields(ctx) ==
    <<ctx.bit_rate, ctx.rc_max_rate, ctx.rc_min_rate, ctx.rc_buffer_size>>

\* C9 as stated: update returns success; with the rate control of the
\* settings constant or variable bitrate it sets bit_rate and rc_max_rate
\* to bitrate * 1000; with any other it leaves bit_rate, rc_max_rate,
\* rc_min_rate and rc_buffer_size as they were.
C9_ReconfigureAsStated ==
    [][\A s \in UpdateSettings : Reconfigure(s) =>
         /\ call'.ret = 1
         /\ IF s.rate_control \in BitrateModes
            THEN /\ enc'.context.bit_rate = s.bitrate * 1000
                 /\ enc'.context.rc_max_rate = s.bitrate * 1000
            ELSE RateFields(enc'.context) = RateFields(enc.context)]_vars

\* C9 as amended: update returns success; in a build against libavcodec
\* 58.19.101 or later, with the rate control of the settings constant or
\* variable bitrate, it sets bit_rate and rc_max_rate to bitrate * 1000; in
\* an older build, or with any other rate control, it leaves bit_rate,
\* rc_max_rate, rc_min_rate and rc_buffer_size as they were.
C9_Reconfigure ==
    [][\A s \in UpdateSettings : Reconfigure(s) =>
         /\ call'.ret = 1
         /\ IF build.dynbitrate /\ s.rate_control \in BitrateModes
            THEN /\ enc'.context.bit_rate = s.bitrate * 1000
                 /\ enc'.context.rc_max_rate = s.bitrate * 1000
            ELSE RateFields(enc'.context) = RateFields(enc.context)]_vars

\* C9, reached: an update to variable bitrate at 3000 kbps took effect on a
\* session created with constant bitrate at 2500 kbps
C9_Witness ==
    /\ pc = "ready" /\ call.op = "update"
    /\ build.dynbitrate
    /\ RateFields(enc.context) = <<3000000, 3000000, 2500000, 2500000>>

\* what of the session stays as it is outside encode and destroy
Settled(e) ==
    <<e.buffer, e.header, e.vframe, e.initialized, e.first_packet, e.height,
      e.context.gop_size, e.context.width, e.context.height,
      e.context.pix_fmt, e.context.time_base, e.context.priv_data,
      e.context.extradata>>

\* C10: the packet view a delivering encode call handed out stays the
\* content of the output buffer, which stays allocated, until the next
\* encode call or destroy; update, get_extra_data and get_video_info change
\* neither the output buffer, the header buffer, the frame, the opened flag,
\* the first-packet flag, the keyframe interval, the geometry nor the pixel
\* format, and leave the codec session as it is (never reopened).
C10_ViewStable ==
    /\ []((InUse /\ host.packet.type # "unset") =>
            /\ host.packet.data = enc.buffer
            /\ host.packet.size = Len(enc.buffer)
            /\ "buffer" \in live)
    /\ [][((\E s \in UpdateSettings : Reconfigure(s))
            \/ ExtraData
            \/ (\E f \in VideoFormats : VideoInfo(f))) =>
               /\ Settled(enc') = Settled(enc)
               /\ codec' = codec
               /\ live' = live
               /\ host' = host]_vars

\* C10, reached: an update changed the bit rate under a packet view
C10_Witness ==
    /\ pc = "ready" /\ call.op = "update"
    /\ host.received_packet
    /\ host.packet.data = <<2, 3>> /\ enc.buffer = <<2, 3>>
    /\ enc.context.bit_rate = 6000000
    /\ enc.context.rc_buffer_size = 2500000

(***************************************************************************)
(* Properties of the configuration.                                        *)
(***************************************************************************)
\* create returned a session configured from encoder.settings and
\* encoder.video
Configured == pc = "ready" /\ host.session = "enc"

\* the integer nearest to n / d, for n >= 0 and d > 0
RoundDiv(n, d) == (2 * n + d) \div (2 * d)

\* C11: configure sets the keyframe interval to keyint_sec * fps_num /
\* fps_den rounded to the nearest integer for every keyint_sec > 0 (2 s at
\* 30000/1001 gives 60), to 250 for keyint_sec = 0, and configuring again
\* with the same inputs gives the same interval.
C11_GopRounded ==
    Configured =>
        LET k == encoder.settings.keyint_sec
            v == encoder.video
        IN  /\ enc.context.gop_size =
                  IF k = 0 THEN 250
                  ELSE RoundDiv(k * v.fps_num, v.fps_den)
            /\ ffmpeg_amf_update(enc.context, encoder.settings, v).gop_size
                  = enc.context.gop_size

\* create has just returned the session: no update was made yet
JustConfigured == Configured /\ call.op = "create"

\* a string with its lower-case letters made upper-case
Upper(str) == [i \in 1 .. Len(str) |-> ToUpper(str[i])]

\* the largest value of an int
Int32Max == 2147483647

\* C12: configure maps the rate control, compared without regard to case:
\* "cqp" leaves bit_rate and rc_buffer_size 0, leaves rc_min_rate and
\* rc_max_rate unset and sets global_quality to cqp; "vbr" sets rc_max_rate
\* to bitrate * 1000 and leaves rc_min_rate unset; "cbr" and every other
\* string set rc_min_rate and rc_max_rate to bitrate * 1000; and outside cqp
\* bit_rate and rc_buffer_size equal bitrate * 1000, which is rc_max_rate and
\* fits an int, for bitrates in 50..300000.
C12_RateControlMapping ==
    JustConfigured =>
        LET s == encoder.settings
            c == enc.context
            rate == s.bitrate * 1000
            unset == avcodec_alloc_context3
        IN  IF Upper(s.rate_control) = S_CQP
            THEN /\ c.bit_rate = 0 /\ c.rc_buffer_size = 0
                 /\ c.rc_min_rate = unset.rc_min_rate
                 /\ c.rc_max_rate = unset.rc_max_rate
                 /\ c.global_quality = s.cqp
            ELSE /\ c.bit_rate = rate /\ c.rc_buffer_size = rate
                 /\ c.rc_max_rate = rate
                 /\ c.bit_rate = c.rc_max_rate
                 /\ c.rc_buffer_size = c.rc_max_rate
                 /\ rate <= Int32Max
                 /\ c.rc_min_rate = IF Upper(s.rate_control) = L_VBR
                                    THEN unset.rc_min_rate ELSE rate

\* C12, reached: a session configured with "Vbr" at the top of the range
C12_Witness ==
    /\ JustConfigured
    /\ encoder.settings.rate_control = S_Vbr
    /\ enc.context.rc_max_rate = 300000000
    /\ enc.context.rc_min_rate = 0
    /\ enc.context.rc_buffer_size = 300000000

\* C13: when avcodec_open2 fails, create fails (the teardown follows and no
\* session is handed out), initialized stays false, and the encoder's last
\* error is afterwards the driver-check message if there was none before, and
\* the text that was there before otherwise.
C13_OpenFailure ==
    /\ [][(Configure /\ hist'.create_failed_at = "open") =>
            /\ ~enc'.initialized
            /\ ~codec'.open
            /\ pc' = "close" /\ call'.op = "create"
            /\ host'.session # "enc"
            /\ encoder'.last_error =
                  IF encoder.last_error = "NULL" THEN CheckDriversMessage
                  ELSE encoder.last_error]_vars
    /\ [](hist.create_failed_at = "open" =>
            /\ encoder.last_error # "NULL"
            /\ (pc = "dead" => (call.ret = 0 /\ host.session = "null"))
            /\ ("enc" \in live => ~enc.initialized))

\* C13, reached: create returned null after a failed open and the text stored
\* before is still the last error
C13_Witness ==
    /\ pc = "dead" /\ hist.create_failed_at = "open"
    /\ host.session = "null"
    /\ encoder.last_error = "No AMF device"

\* the two raw formats the encoder takes
Supported == {"I420", "NV12"}

\* C14: the resolved pixel format is I420 or NV12: the encoder's preferred
\* format when that is one of the two, otherwise the proposed format when
\* that is one of the two, otherwise NV12; resolving the resolved format
\* again under the same preferred format gives it back; and the context of a
\* configured session has the pixel format resolved from the output's.
C14_ResolvedFormat ==
    /\ [][\A f \in VideoFormats : VideoInfo(f) =>
            LET p == encoder.video.preferred_format
                r == call'.out[1]
            IN  /\ r \in Supported
                /\ r = IF p \in Supported THEN p
                       ELSE IF f \in Supported THEN f ELSE "NV12"
                /\ (call.op = "get_video_info" /\ f = call.out[1])
                      => r = f]_vars
    /\ [](Configured =>
            LET p == encoder.video.preferred_format
                f == encoder.video.format
            IN  enc.context.pix_fmt =
                  IF (IF p \in Supported THEN p
                      ELSE IF f \in Supported THEN f ELSE "NV12") = "I420"
                  THEN "AV_PIX_FMT_YUV420P" ELSE "AV_PIX_FMT_NV12")

\* C14, reached: with a preferred format that is not supported the proposed
\* I420 was taken, on a session whose output format fell back to NV12
C14_Witness ==
    /\ Configured /\ call.op = "get_video_info"
    /\ encoder.video.preferred_format = "RGBA"
    /\ encoder.video.format = "I444"
    /\ call.out = <<"I420">>
    /\ enc.context.pix_fmt = "AV_PIX_FMT_NV12"

\* transfer, primaries and matrix of a context
ColorFields(ctx) == <<ctx.color_trc, ctx.color_primaries, ctx.colorspace>>

\* C16: configure maps the colorspace of the output: 601 gives SMPTE170M
\* transfer, primaries and matrix; default and 709 give BT709 for all three;
\* sRGB gives IEC61966-2-1 transfer with BT709 primaries and matrix; any
\* other colorspace leaves the three fields unset; and the color range is
\* full (JPEG) exactly when the output's range is full, limited (MPEG)
\* otherwise.
C16_ColorMapping ==
    Configured =>
        LET cs == encoder.video.colorspace
            c == enc.context
        IN  /\ (cs = "VIDEO_CS_601" =>
                  ColorFields(c) = <<"AVCOL_TRC_SMPTE170M",
                                     "AVCOL_PRI_SMPTE170M",
                                     "AVCOL_SPC_SMPTE170M">>)
            /\ (cs \in {"VIDEO_CS_DEFAULT", "VIDEO_CS_709"} =>
                  ColorFields(c) = <<"AVCOL_TRC_BT709", "AVCOL_PRI_BT709",
                                     "AVCOL_SPC_BT709">>)
            /\ (cs = "VIDEO_CS_SRGB" =>
                  ColorFields(c) = <<"AVCOL_TRC_IEC61966_2_1",
                                     "AVCOL_PRI_BT709", "AVCOL_SPC_BT709">>)
            /\ (cs \notin {"VIDEO_CS_601", "VIDEO_CS_DEFAULT",
                           "VIDEO_CS_709", "VIDEO_CS_SRGB"} =>
                  ColorFields(c) = <<"AVCOL_TRC_UNSPECIFIED",
                                     "AVCOL_PRI_UNSPECIFIED",
                                     "AVCOL_SPC_UNSPECIFIED">>)
            /\ (c.color_range = "AVCOL_RANGE_JPEG"
                  <=> encoder.video.range = "VIDEO_RANGE_FULL")
            /\ c.color_range \in {"AVCOL_RANGE_JPEG", "AVCOL_RANGE_MPEG"}
            /\ enc.vframe.colorspace = c.colorspace
            /\ enc.vframe.color_range = c.color_range

\* C16, reached: an sRGB output of full range
C16_Witness ==
    /\ Configured
    /\ encoder.video.colorspace = "VIDEO_CS_SRGB"
    /\ encoder.video.range = "VIDEO_RANGE_FULL"
    /\ enc.context.color_trc = "AVCOL_TRC_IEC61966_2_1"
    /\ enc.context.color_range = "AVCOL_RANGE_JPEG"

(***************************************************************************)
(* The copy alone: frames of both formats, of every height up to           *)
(* MaxHeight, with fewer or more planes than the session's frame and rows  *)
(* shorter or longer than its rows.                                        *)
(***************************************************************************)
\* row strides of the host's frames: below, at and above the session's
FrameStrides == {2, 4, 5}

\* the outputs whose frames are copied: both formats, heights from 1 on,
\* widths whose rows fill the alignment and do not
CopyVideos ==
    {MkVideo(f, "VIDEO_CS_709", "VIDEO_RANGE_PARTIAL", 30, 1, w, h, "NONE") :
        f \in {"I420", "NV12"}, w \in {2, 4}, h \in 1 .. MaxHeight}

\* a session as create returns it and the frame the host passes to encode
InitCopy ==
    /\ build \in Builds
    /\ pc = "ready"
    /\ \E video \in CopyVideos, fs \in FrameStrides, nplanes \in 1 .. 3 :
          LET r == ffmpeg_amf_create(MkSettings(S_CBR, 2500, 20, 2), video,
                                     "none", <<>>, "NULL")
          IN  /\ enc = r.enc
              /\ live = r.live
              /\ codec = r.codec
              /\ encoder = [video |-> video, last_error |-> "NULL"]
              /\ call = [op |-> "create", ret |-> 1,
                         out |-> [frame |-> HostFrame(nplanes, video.height,
                                                      fs, 1),
                                  reads |-> {}, writes |-> {}]]
    /\ host = [session |-> "enc", packet |-> NoPacket,
               received_packet |-> FALSE]
    /\ hist = [encodes |-> 0, destroys |-> 0, drained |-> 0,
               delivered |-> 0, last_seq |-> 0, sends |-> 0, recvs |-> 0,
               create_failed_at |-> "none", eos_signalled |-> FALSE,
               drain_error |-> FALSE, left_in_codec |-> 0,
               closed |-> FALSE, after_free |-> "none"]

\* ffmpeg_amf_encode, line 375
CopyData ==
    /\ pc = "ready"
    /\ LET r == copy_data(enc.vframe, call.out.frame, enc.height,
                          enc.context.pix_fmt)
       IN  /\ enc' = [enc EXCEPT !.vframe = r.pic]
           /\ call' = [op |-> "copy_data", ret |-> 0,
                       out |-> [frame |-> call.out.frame,
                                reads |-> r.reads, writes |-> r.writes]]
    /\ pc' = "copied"
    /\ UNCHANGED <<build, live, codec, encoder, host, hist>>

NextCopy == CopyData

SpecCopy == InitCopy /\ [][NextCopy]_vars

\* the bytes of a plane the claim is about: rows of rowsize, the first
\* bytes of each
Overlap(plane, height, rowsize, bytes) ==
    {<<plane, y * rowsize + x>> :
        y \in 0 .. PlaneRows(plane, height) - 1, x \in 0 .. bytes - 1}

\* C15: for both formats and every height, odd ones included, after the
\* copy every plane the source has and the destination has equals the
\* source over the first min(strides) bytes of every row of the plane,
\* chroma planes counted with their full number of rows; planes the source
\* has not are left as they were; and nothing is read or written outside
\* the rows of the plane times min(strides) bytes, also for a plane of the
\* source that the destination has not.
C15_CopyIdentical ==
    pc = "copied" =>
        LET pic == enc.vframe
            frame == call.out.frame
            h == enc.height
        IN  \A plane \in Planes :
               LET ps == pic.linesize[plane]
                   fs == frame.linesize[plane]
                   n == IF fs < ps THEN fs ELSE ps
               IN  /\ (frame.data[plane] # NULL /\ pic.data[plane] # NULL) =>
                         \A y \in 0 .. PlaneRows(plane, h) - 1,
                            x \in 0 .. n - 1 :
                            pic.data[plane].bytes[y * ps + x + 1]
                               = frame.data[plane].bytes[y * fs + x + 1]
                   /\ (frame.data[plane] = NULL /\ pic.data[plane] # NULL) =>
                         \A i \in 1 .. Len(pic.data[plane].bytes) :
                            pic.data[plane].bytes[i] = 0
                   /\ {w \in call.out.writes : w[1] = plane}
                         \subseteq Overlap(plane, h, ps, n)
                   /\ {r \in call.out.reads : r[1] = plane}
                         \subseteq Overlap(plane, h, fs, n)

(***************************************************************************)
(* Properties of encode, update and destroy.                               *)
(***************************************************************************)
\* what the session answered to the submission of the frame
SubmitAnswer == call.out[1]

\* C17: when an encode call returns success, the session accepted the frame
\* of that call: a submission the session rejected, with EAGAIN or EOF as
\* with any other error, is never returned as success without a packet.
C17_SuccessMeansAccepted ==
    (EncodeReturned /\ call.ret = 1) => SubmitAnswer = 0

\* C18: on a session configured with constant bitrate (by "CBR" or by a
\* string that is no rate control), every update made with the same rate
\* control leaves rc_min_rate, rc_max_rate, bit_rate and rc_buffer_size all
\* equal to 1000 times the bitrate of that update.
C18_CbrRatesFollow ==
    [][\A s \in SameControl(encoder.settings) :
          (Reconfigure(s) /\ enc.context.priv_data.rc = "cbr") =>
              LET rate == 1000 * s.bitrate
              IN  /\ enc'.context.rc_min_rate = rate
                  /\ enc'.context.rc_max_rate = rate
                  /\ enc'.context.bit_rate = rate
                  /\ enc'.context.rc_buffer_size = rate]_vars

\* the first destroy of the session is running
Destroying == pc \in {"drain", "close", "free"}

\* C19: destroy ends: once entered it reaches the releases and returns; a
\* turn of the drain loop that got a packet unreferences it and goes on, a
\* turn that got none leaves the loop (on a negative result, errors
\* included, or, in the legacy build, on the call that gave no packet), the
\* session is closed and freed after it whatever the retrieval answered,
\* and the loop receives no more packets than frames were submitted.
C19_DestroyTerminates ==
    /\ Destroying ~> (pc = "dead")
    /\ [][DestroyDrain =>
            IF Len(codec'.outq) < Len(codec.outq)
            THEN /\ hist'.drained = hist.drained + 1
                 /\ pc' = "drain"
            ELSE /\ hist'.drained = hist.drained
                 /\ pc' = "close"]_vars
    /\ [][(pc = "drain" /\ pc' # "drain") => pc' = "close"]_vars
    /\ [](hist.drained + hist.delivered <= hist.encodes)
    /\ []((pc = "dead" /\ hist.drain_error) =>
            (~codec.open /\ "enc" \notin live /\ hist.closed))

\* C19, reached: destroy returned after its loop received two packets and
\* then met an error of the retrieval
C19_Witness ==
    /\ pc = "dead" /\ call.op = "destroy"
    /\ hist.drained = 2
    /\ hist.drain_error
====
